---- MODULE Spec2Model ----
(***************************************************************************)
(* Bulk-import pipeline of Control-Task: the upload gateway                *)
(* (app/routes/upload.py), the Celery task bulk_upload (app/task.py), the  *)
(* result backend configured in app/celery_worker.py and the users table   *)
(* of app/database.py.                                                     *)
(***************************************************************************)
EXTENDS Integers, Sequences, FiniteSets, TLC

(* ------------------------------------------------------------------ *)
(* Bounds                                                              *)
(* ------------------------------------------------------------------ *)
MaxJobs == 2
MaxRows == 2
BatchMaxRows == 250

(* ------------------------------------------------------------------ *)
(* Spreadsheet cells as pandas hands them to the row loop              *)
(* ------------------------------------------------------------------ *)
\* row.get(col) of a column the sheet does not have
PyNone == [t |-> "none", v |-> "None"]
\* a blank cell: read_excel yields float NaN
NaN == [t |-> "float", v |-> "nan"]
\* a numeric cell holding 0
Zero == [t |-> "int", v |-> "0"]
Text(s) == [t |-> "str", v |-> s]

\* Python truth value of a cell: None, 0 and "" are false, NaN is true
Truthy(c) ==
    CASE c.t = "none" -> FALSE
      [] c.t = "int" -> c.v # "0"
      [] c.t = "float" -> c.v # "0.0"
      [] OTHER -> c.v # ""

\* Python `a or b`
PyOr(a, b) == IF Truthy(a) THEN a ELSE b

\* str(x)
Str(c) == c.v

RowFull ==
    [username |-> Text("ana"), nombre |-> PyNone, name |-> PyNone,
     email |-> Text("ana@x.com"), correo |-> PyNone]
RowAlias ==
    [username |-> PyNone, nombre |-> Text("luis"), name |-> PyNone,
     email |-> PyNone, correo |-> Text("luis@x.com")]
RowNoUser ==
    [username |-> Zero, nombre |-> PyNone, name |-> PyNone,
     email |-> Text("b@x.com"), correo |-> PyNone]
RowNoEmail ==
    [username |-> Text("c"), nombre |-> PyNone, name |-> PyNone,
     email |-> Zero, correo |-> PyNone]
RowBlankUser ==
    [username |-> NaN, nombre |-> PyNone, name |-> PyNone,
     email |-> Text("d@x.com"), correo |-> PyNone]

\* Row patterns of the uploaded sheets; row i of a sheet is cycle[(i % Len) + 1]
Cycles ==
    { <<RowFull>>,
      <<RowNoUser>>,
      <<RowFull, RowNoUser>>,
      <<RowFull, RowNoUser, RowNoEmail>>,
      <<RowAlias, RowBlankUser>> }

\* An uploaded file: unreadable, or a sheet of `rows` rows
Sheet(n, cyc) == [readable |-> TRUE, rows |-> n, cycle |-> cyc]
Corrupt == [readable |-> FALSE, rows |-> 0, cycle |-> <<RowFull>>]
NoFile == [readable |-> FALSE, rows |-> 0, cycle |-> <<>>]

\* Uploads of the gateway runs: a corrupt file, an empty sheet, and a sheet of
\* MaxRows rows with valid and skipped rows
Contents == {Corrupt, Sheet(0, <<RowFull>>), Sheet(MaxRows, <<RowFull, RowNoUser>>)}
\* Uploads of the batch runs: every row count up to BatchMaxRows
BatchContents == {Sheet(n, c) : n \in 0..BatchMaxRows, c \in Cycles}

\* df.iterrows(): the row at index label i (RangeIndex 0..n-1)
RowAt(df, i) == df.cycle[(i % Len(df.cycle)) + 1]

(* ------------------------------------------------------------------ *)
(* File names and the extension test of upload_xls                     *)
(* ------------------------------------------------------------------ *)
UpperCase == <<"A","B","C","D","E","F","G","H","I","J","K","L","M",
               "N","O","P","Q","R","S","T","U","V","W","X","Y","Z">>
LowerCase == <<"a","b","c","d","e","f","g","h","i","j","k","l","m",
               "n","o","p","q","r","s","t","u","v","w","x","y","z">>

ToLower ==
    [ch \in {UpperCase[k] : k \in 1..Len(UpperCase)} |->
        LowerCase[CHOOSE k \in 1..Len(UpperCase) : UpperCase[k] = ch]]

LowerChar(ch) == IF ch \in DOMAIN ToLower THEN ToLower[ch] ELSE ch

\* str.lower()
Lower(s) == [k \in 1..Len(s) |-> LowerChar(s[k])]

\* str.endswith(suffix)
EndsWith(s, suf) ==
    /\ Len(s) >= Len(suf)
    /\ SubSeq(s, Len(s) - Len(suf) + 1, Len(s)) = suf

ExtXls == <<".", "x", "l", "s">>
ExtXlsx == <<".", "x", "l", "s", "x">>

\* Mutant of Supported: the suffixes written without their dot
SupportedNoDot(filename) ==
    EndsWith(Lower(filename), Tail(ExtXls)) \/ EndsWith(Lower(filename), Tail(ExtXlsx))

\* file.filename.lower().endswith((".xls", ".xlsx"))
Supported(filename) ==
    EndsWith(Lower(filename), ExtXls) \/ EndsWith(Lower(filename), ExtXlsx)

NameXlsx == <<"u", ".", "x", "l", "s", "x">>
NameXLS == <<"U", ".", "X", "L", "S">>
NameCsv == <<"u", ".", "c", "s", "v">>
NameBare == <<"u", "x", "l", "s">>
NameXlsCsv == <<"u", ".", "x", "l", "s", ".", "c", "s", "v">>

FileNames == {NameXlsx, NameXLS, NameCsv, NameBare, NameXlsCsv}

(* ------------------------------------------------------------------ *)
(* Celery result backend and task results                              *)
(* ------------------------------------------------------------------ *)
READY_STATES == {"SUCCESS", "FAILURE", "REVOKED"}

\* Ids a client may poll: the issued ones and one more that never is
TaskIds == 1..(MaxJobs + 1)
\* task_id is any string of the path: one that is no id delay() could issue
MalformedId == 0

ParseError == "Excel file format cannot be determined"
NoConnection == "No DB connection"
InsertError == "1062 (23000): Duplicate entry"
CommitError == "2013 (HY000): Lost connection to MySQL server"

Completed(total) == [status |-> "completed", total |-> total]
Failed(msg) == [status |-> "failed", error |-> msg]

\* (i + 1) % 100 == 0
BatchSize == 100

\* int(((i + 1) / total) * 100) in IEEE doubles: the quotients 0.29, 0.57 and
\* 0.58 times 100 round to just below the integer, every other product of a
\* quotient k/total with 100 truncates to floor(100*k/total)
Percent(current, total) ==
    LET q == (100 * current) \div total
    IN IF 100 * current \in {29 * total, 57 * total, 58 * total} THEN q - 1 ELSE q

VARIABLES
    files,      \* upload directory: file name -> content (NoFile when absent)
    jobs,       \* issued tasks, by id: the message and the worker's locals
    backend,    \* result backend: task id -> stored meta, for the ids stored
    db,         \* committed rows of the users table, in commit order
    request     \* the HTTP request the gateway is handling, or its response

vars == <<files, jobs, backend, db, request>>

\* uvicorn serves app.main:app from one event loop and neither handler awaits,
\* so the gateway handles one request at a time
Idle ==
    [route |-> "none", pc |-> "idle", file |-> <<>>, id |-> 0, since |-> "none",
     code |-> 0, body |-> [state |-> "NONE"]]

Init ==
    /\ files = [f \in FileNames |-> NoFile]
    /\ jobs = <<>>
    /\ backend = <<>>
    /\ db = <<>>
    /\ request = Idle

\* bulk_upload.delay(dest): the message, and the locals of its run
NewJob(dest) ==
    [path |-> dest, pc |-> "queued", df |-> NoFile, total |-> 0, i |-> 0,
     pending |-> <<>>, published |-> 0, commits |-> 0, exc |-> "none"]

(* ------------------------------------------------------------------ *)
(* POST /upload-xls                                                    *)
(* ------------------------------------------------------------------ *)
\* `bodies` are the contents the uploaded file may have; it is read only once
\* the name has passed the extension test
upload_xls(filename, bodies, limit) ==
    /\ request.pc \in {"idle", "done"}
    /\ IF ~Supported(filename)
       THEN /\ request' = [route |-> "upload-xls", pc |-> "done", file |-> filename,
                           id |-> 0, since |-> "none", code |-> 400,
                           body |-> [detail |-> "Archivo no soportado. Use .xls o .xlsx"]]
            /\ UNCHANGED <<files, jobs, backend, db>>
       ELSE /\ Len(jobs) < limit
            /\ \E content \in bodies : files' = [files EXCEPT ![filename] = content]
            /\ jobs' = Append(jobs, NewJob(filename))
            /\ request' = [route |-> "upload-xls", pc |-> "done", file |-> filename,
                           id |-> Len(jobs) + 1, since |-> "none", code |-> 200,
                           body |-> [task_id |-> Len(jobs) + 1, status |-> "processing"]]
            /\ UNCHANGED <<backend, db>>

(* ------------------------------------------------------------------ *)
(* bulk_upload                                                         *)
(* ------------------------------------------------------------------ *)
\* the worker stores the value the task function returns with state SUCCESS;
\* the connection goes with the frame, and the server drops what it had not
\* committed
Return(j, result) ==
    /\ backend' = (j :> [status |-> "SUCCESS", result |-> result]) @@ backend
    /\ jobs' = [jobs EXCEPT ![j].pc = "returned", ![j].pending = <<>>]

\* Mutant of Except: the exception is swallowed inside the loop, which goes on
\* with the next row
ExceptContinue(j, msg) ==
    /\ backend' = (j :> [status |-> "SUCCESS", result |-> Failed(msg)]) @@ backend
    /\ jobs' = [jobs EXCEPT ![j].i = @ + 1, ![j].exc = msg]

\* Mutant of Except: the failed task is put back on the queue after its result
\* has been stored
ExceptRequeue(j, msg) ==
    /\ backend' = (j :> [status |-> "SUCCESS", result |-> Failed(msg)]) @@ backend
    /\ jobs' = [jobs EXCEPT ![j].pc = "queued", ![j].pending = <<>>, ![j].exc = msg]

\* lines 44-45: except Exception as e: return {"status": "failed", ...}
Except(j, msg) ==
    /\ backend' = (j :> [status |-> "SUCCESS", result |-> Failed(msg)]) @@ backend
    /\ jobs' = [jobs EXCEPT ![j].pc = "returned", ![j].pending = <<>>, ![j].exc = msg]

\* self.update_state(state="PROGRESS", meta=...)
update_state(j, meta) ==
    backend' = (j :> [status |-> "PROGRESS", result |-> meta]) @@ backend

\* Mutant of ProgressMeta: the index published instead of index + 1
ProgressMetaOffByOne(i, total) ==
    [current |-> i, total |-> total, percent |-> Percent(i, total)]

\* lines 37-38: the meta published after row i
ProgressMeta(i, total) ==
    [current |-> i + 1, total |-> total, percent |-> Percent(i + 1, total)]

\* Mutant of IsEmpty: the early return for an empty sheet left out
IsEmptyNever(total) == FALSE

\* line 12: if total == 0
IsEmpty(total) == total = 0

\* row.get('username') or row.get('nombre') or row.get('name')
Username(row) == PyOr(PyOr(row.username, row.nombre), row.name)
\* row.get('email') or row.get('correo')
Email(row) == PyOr(row.email, row.correo)
\* not username or not email
Skipped(row) == ~Truthy(Username(row)) \/ ~Truthy(Email(row))

\* the parameters of the INSERT; job and row tell the records apart
UserRecord(j, i, row) ==
    [job |-> j, row |-> i, username |-> Str(Username(row)),
     email |-> Str(Email(row)), hashed_password |-> ""]

\* Mutant of bulk_upload_start: a missing connection is noted and the loop
\* is entered all the same
bulk_upload_start_unchecked(j) ==
    /\ j \in 1..Len(jobs)
    /\ jobs[j].pc = "queued"
    /\ LET df == files[jobs[j].path]
           parsed == [jobs EXCEPT ![j].df = df, ![j].total = df.rows]
       IN IF ~df.readable
          THEN Except(j, ParseError) /\ UNCHANGED db
          ELSE IF IsEmpty(df.rows)
          THEN /\ backend' = (j :> [status |-> "SUCCESS", result |-> Completed(0)]) @@ backend
               /\ jobs' = [parsed EXCEPT ![j].pc = "returned"]
               /\ UNCHANGED db
          ELSE \E connected \in BOOLEAN :
                 /\ jobs' = [parsed EXCEPT
                       ![j].pc = "loop", ![j].i = 0,
                       ![j].exc = IF connected THEN "none" ELSE NoConnection]
                 /\ UNCHANGED <<backend, db>>
    /\ UNCHANGED <<files, request>>

\* lines 9-19: parse, empty check, connection
bulk_upload_start(j) ==
    /\ j \in 1..Len(jobs)
    /\ jobs[j].pc = "queued"
    /\ LET df == files[jobs[j].path]
           parsed == [jobs EXCEPT ![j].df = df, ![j].total = df.rows]
       IN IF ~df.readable
          THEN Except(j, ParseError) /\ UNCHANGED db
          ELSE IF IsEmpty(df.rows)
          THEN /\ backend' = (j :> [status |-> "SUCCESS", result |-> Completed(0)]) @@ backend
               /\ jobs' = [parsed EXCEPT ![j].pc = "returned"]
               /\ UNCHANGED db
          ELSE \E connected \in BOOLEAN :
                 IF ~connected
                 THEN /\ backend' = (j :> [status |-> "SUCCESS",
                                           result |-> Failed(NoConnection)]) @@ backend
                      /\ jobs' = [parsed EXCEPT ![j].pc = "returned",
                                                ![j].exc = NoConnection]
                      /\ UNCHANGED db
                 ELSE /\ jobs' = [parsed EXCEPT ![j].pc = "loop", ![j].i = 0]
                      /\ UNCHANGED <<backend, db>>
    /\ UNCHANGED <<files, request>>

\* Mutant of bulk_upload_row: a skipped row does not advance the loop
bulk_upload_row_stuck(j) ==
    /\ j \in 1..Len(jobs)
    /\ jobs[j].pc = "loop"
    /\ jobs[j].i < jobs[j].total
    /\ LET i == jobs[j].i
           total == jobs[j].total
           row == RowAt(jobs[j].df, i)
           inserted == Append(jobs[j].pending, UserRecord(j, i, row))
           boundary == (i + 1) % BatchSize = 0
       IN IF Skipped(row)
          THEN UNCHANGED <<jobs, backend, db>>
          ELSE \E fault \in {"none", "insert", "commit"} :
                 CASE fault = "insert" ->
                        Except(j, InsertError) /\ UNCHANGED db
                   [] fault = "commit" ->
                        boundary /\ Except(j, CommitError) /\ UNCHANGED db
                   [] OTHER ->
                        /\ db' = IF boundary THEN db \o inserted ELSE db
                        /\ jobs' = [jobs EXCEPT
                              ![j].i = i + 1,
                              ![j].pending = IF boundary THEN <<>> ELSE inserted,
                              ![j].commits = @ + (IF boundary THEN 1 ELSE 0),
                              ![j].published = @ + 1]
                        /\ update_state(j, ProgressMeta(i, total))
    /\ UNCHANGED <<files, request>>

\* lines 22-38: one iteration of the row loop
bulk_upload_row(j) ==
    /\ j \in 1..Len(jobs)
    /\ jobs[j].pc = "loop"
    /\ jobs[j].i < jobs[j].total
    /\ LET i == jobs[j].i
           total == jobs[j].total
           row == RowAt(jobs[j].df, i)
           inserted == Append(jobs[j].pending, UserRecord(j, i, row))
           boundary == (i + 1) % BatchSize = 0
       IN IF Skipped(row)
          THEN /\ jobs' = [jobs EXCEPT ![j].i = i + 1]
               /\ UNCHANGED <<backend, db>>
          ELSE \E fault \in {"none", "insert", "commit"} :
                 CASE fault = "insert" ->
                        Except(j, InsertError) /\ UNCHANGED db
                   [] fault = "commit" ->
                        boundary /\ Except(j, CommitError) /\ UNCHANGED db
                   [] OTHER ->
                        /\ db' = IF boundary THEN db \o inserted ELSE db
                        /\ jobs' = [jobs EXCEPT
                              ![j].i = i + 1,
                              ![j].pending = IF boundary THEN <<>> ELSE inserted,
                              ![j].commits = @ + (IF boundary THEN 1 ELSE 0),
                              ![j].published = @ + 1]
                        /\ update_state(j, ProgressMeta(i, total))
    /\ UNCHANGED <<files, request>>

\* Mutant of bulk_upload_finish: total reports the records persisted
bulk_upload_finish_persisted(j) ==
    /\ j \in 1..Len(jobs)
    /\ jobs[j].pc = "loop"
    /\ jobs[j].i = jobs[j].total
    /\ \E fault \in {"none", "commit"} :
         IF fault = "commit"
         THEN Except(j, CommitError) /\ UNCHANGED db
         ELSE /\ db' = db \o jobs[j].pending
              /\ Return(j, Completed(Cardinality({k \in 1..Len(db') : db'[k].job = j})))
    /\ UNCHANGED <<files, request>>

\* Mutant of bulk_upload_finish: returns without the final commit
bulk_upload_finish_uncommitted(j) ==
    /\ j \in 1..Len(jobs)
    /\ jobs[j].pc = "loop"
    /\ jobs[j].i = jobs[j].total
    /\ \E fault \in {"none", "commit"} :
         IF fault = "commit"
         THEN Except(j, CommitError) /\ UNCHANGED db
         ELSE /\ db' = db
              /\ Return(j, Completed(jobs[j].total))
    /\ UNCHANGED <<files, request>>

\* lines 40-43: final commit and return
bulk_upload_finish(j) ==
    /\ j \in 1..Len(jobs)
    /\ jobs[j].pc = "loop"
    /\ jobs[j].i = jobs[j].total
    /\ \E fault \in {"none", "commit"} :
         IF fault = "commit"
         THEN Except(j, CommitError) /\ UNCHANGED db
         ELSE /\ db' = db \o jobs[j].pending
              /\ Return(j, Completed(jobs[j].total))
    /\ UNCHANGED <<files, request>>

(* ------------------------------------------------------------------ *)
(* GET /upload-status/{task_id}                                        *)
(* ------------------------------------------------------------------ *)
PendingMeta == [status |-> "PENDING", result |-> PyNone]

\* backend.get_task_meta: an id with nothing stored reads as PENDING
get_task_meta(id) == IF id \in DOMAIN backend THEN backend[id] ELSE PendingMeta

EmptyDict == [k \in {} |-> PyNone]
\* task.info or {}
InfoOrEmpty(info) == IF info = PyNone \/ DOMAIN info = {} THEN EmptyDict ELSE info

\* Mutant of Project: a task the backend does not know answered as not found
ProjectNotFound(meta) ==
    CASE meta.status = "PENDING" -> [detail |-> "Task not found"]
      [] meta.status = "PROGRESS" -> [state |-> "PROGRESS"] @@ InfoOrEmpty(meta.result)
      [] meta.status = "SUCCESS" -> [state |-> "COMPLETED", result |-> meta.result]
      [] meta.status = "FAILURE" -> [state |-> "FAILED", error |-> Str(meta.result)]
      [] OTHER -> [state |-> meta.status]

\* lines 26-34 on one reading of the task's meta
Project(meta) ==
    CASE meta.status = "PENDING" -> [state |-> "PENDING"]
      [] meta.status = "PROGRESS" -> [state |-> "PROGRESS"] @@ InfoOrEmpty(meta.result)
      [] meta.status = "SUCCESS" -> [state |-> "COMPLETED", result |-> meta.result]
      [] meta.status = "FAILURE" -> [state |-> "FAILED", error |-> Str(meta.result)]
      [] OTHER -> [state |-> meta.status]

\* where the task of `id` stands when a request for it arrives
Stage(id) == IF id \in 1..Len(jobs) THEN jobs[id].pc ELSE "unissued"

Respond(view) == request' = [request EXCEPT !.pc = "done", !.code = 200, !.body = view]

\* lines 25-27: AsyncResult(task_id) and the first read of task.state; a
\* ready state is cached by the AsyncResult, so the later lines read the same
upload_status(id) ==
    /\ request.pc \in {"idle", "done"}
    /\ LET meta == get_task_meta(id)
           arrived == [route |-> "upload-status", pc |-> "line28", file |-> <<>>,
                       id |-> id, since |-> Stage(id), code |-> 0,
                       body |-> [state |-> "NONE"]]
       IN IF meta.status = "PENDING" \/ meta.status \in READY_STATES
          THEN request' = [arrived EXCEPT !.pc = "done", !.code = 200,
                                          !.body = Project(meta)]
          ELSE request' = arrived
    /\ UNCHANGED <<files, jobs, backend, db>>

\* line 28: the second read of task.state; a state that is neither PROGRESS
\* nor ready falls through to line 34, which reads it once more
upload_status_line28 ==
    /\ request.pc = "line28"
    /\ LET meta == get_task_meta(request.id)
       IN IF meta.status = "PROGRESS"
          THEN request' = [request EXCEPT !.pc = "line29"]
          ELSE Respond(Project(meta))
    /\ UNCHANGED <<files, jobs, backend, db>>

\* line 29: the read of task.info
upload_status_line29 ==
    /\ request.pc = "line29"
    /\ Respond([state |-> "PROGRESS"] @@ InfoOrEmpty(get_task_meta(request.id).result))
    /\ UNCHANGED <<files, jobs, backend, db>>

(* ------------------------------------------------------------------ *)
(* Specifications                                                      *)
(* ------------------------------------------------------------------ *)
Next ==
    \/ \E f \in FileNames : upload_xls(f, Contents, MaxJobs)
    \/ \E j \in 1..MaxJobs : bulk_upload_start(j)
    \/ \E j \in 1..MaxJobs : bulk_upload_row(j)
    \/ \E j \in 1..MaxJobs : bulk_upload_finish(j)
    \/ \E id \in TaskIds \cup {MalformedId} : upload_status(id)
    \/ upload_status_line28
    \/ upload_status_line29

Spec == Init /\ [][Next]_vars

\* One job whose sheet is large enough for the 100-row batches
InitBatch ==
    \E c \in BatchContents :
        /\ files = [f \in FileNames |-> IF f = NameXlsx THEN c ELSE NoFile]
        /\ jobs = <<NewJob(NameXlsx)>>
        /\ backend = <<>>
        /\ db = <<>>
        /\ request = [route |-> "upload-xls", pc |-> "done", file |-> NameXlsx,
                      id |-> 1, since |-> "none", code |-> 200,
                      body |-> [task_id |-> 1, status |-> "processing"]]

NextBatch ==
    \/ bulk_upload_start(1)
    \/ bulk_upload_row(1)
    \/ bulk_upload_finish(1)

SpecBatch == InitBatch /\ [][NextBatch]_vars

\* The worker runs a task it has received and every call of the task
\* returns or raises: each step of bulk_upload that can be taken is taken
Fairness ==
    \A j \in 1..MaxJobs :
        /\ WF_vars(bulk_upload_start(j))
        /\ WF_vars(bulk_upload_row(j))
        /\ WF_vars(bulk_upload_finish(j))

\* Submissions and the worker, without the status requests
NextLive ==
    \/ \E f \in FileNames : upload_xls(f, Contents, MaxJobs)
    \/ \E j \in 1..MaxJobs : bulk_upload_start(j)
    \/ \E j \in 1..MaxJobs : bulk_upload_row(j)
    \/ \E j \in 1..MaxJobs : bulk_upload_finish(j)

SpecLive == Init /\ [][NextLive]_vars /\ Fairness

(* ------------------------------------------------------------------ *)
(* Properties                                                          *)
(* ------------------------------------------------------------------ *)
JobIds == 1..Len(jobs)

\* the gateway has answered a status request for task j
StatusAnswer(j) ==
    request.route = "upload-status" /\ request.pc = "done" /\ request.id = j

\* ... a request that arrived after the task function had returned
LateAnswer(j) == StatusAnswer(j) /\ request.since = "returned"

\* records task j has committed
Committed(j) == {k \in 1..Len(db) : db[k].job = j}

\* C1: when an insert or a commit raises, every status request made after
\* the executor has finished is answered FAILED with the exception's message
\* (and so never COMPLETED).
C1_RowExceptionEndsFailed ==
    \A j \in JobIds :
        (jobs[j].exc \in {InsertError, CommitError} /\ LateAnswer(j))
            => request.body = [state |-> "FAILED", error |-> jobs[j].exc]

\* C2: when parsing fails no status request for the job is answered PROGRESS,
\* and requests made after the executor has finished are answered FAILED with
\* a non-empty error.
C2_ParseFailureEndsFailed ==
    \A j \in JobIds :
        (jobs[j].exc = ParseError /\ StatusAnswer(j))
            => /\ request.body.state # "PROGRESS"
               /\ request.since = "returned"
                    => /\ request.body.state = "FAILED"
                       /\ "error" \in DOMAIN request.body
                       /\ request.body.error # ""

\* C3: after the executor has handled row index i-1, skipped or not, the
\* progress update it published last has processed = i; a job that ends
\* without an exception has published one update per row.
C3_EveryRowPublishes ==
    \A j \in JobIds :
        /\ (jobs[j].pc = "loop" /\ jobs[j].i > 0)
              => /\ j \in DOMAIN backend
                 /\ backend[j].status = "PROGRESS"
                 /\ backend[j].result.current = jobs[j].i
        /\ (jobs[j].pc = "returned" /\ jobs[j].exc = "none")
              => jobs[j].published = jobs[j].total

\* C4: after any row has been handled a job holds at most 99 records that
\* are inserted and not committed.
C4_AtMost99Uncommitted ==
    \A j \in JobIds : Len(jobs[j].pending) <= BatchSize - 1

\* C5: when the row loop of an n-row job has ended without an exception,
\* floor(n/100) commits have been made inside the loop (two or more for 250
\* rows), whichever rows were skipped.
C5_IntermediateCommits ==
    \A j \in JobIds :
        (jobs[j].pc = "loop" /\ jobs[j].i = jobs[j].total)
            => /\ jobs[j].commits = jobs[j].total \div BatchSize
               /\ jobs[j].total = 250 => jobs[j].commits >= 2

\* C6: a job that handles all its rows without an exception ends stored as
\* completed with total = the number of rows parsed, and status requests made
\* after that are answered COMPLETED with that result, however many rows were
\* skipped or persisted.
C6_CompletedTotalIsRowCount ==
    \A j \in JobIds :
        (jobs[j].pc = "returned" /\ jobs[j].exc = "none")
            => /\ j \in DOMAIN backend
               /\ backend[j] = [status |-> "SUCCESS", result |-> Completed(jobs[j].df.rows)]
               /\ LateAnswer(j)
                    => request.body = [state |-> "COMPLETED",
                                       result |-> Completed(jobs[j].df.rows)]

\* C6 witness: a completed job with fewer records than rows, polled afterwards
C6_Witness ==
    \E j \in JobIds :
        /\ jobs[j].pc = "returned" /\ jobs[j].exc = "none"
        /\ LateAnswer(j)
        /\ jobs[j].df.rows > 0
        /\ Cardinality(Committed(j)) > 0
        /\ Cardinality(Committed(j)) < jobs[j].df.rows

\* C7: every progress update a job publishes has 1 <= processed <= total and
\* total = the row count, and against the update before it processed has not
\* decreased and total is the same.
C7_ProgressMonotone ==
    [][\A j \in JobIds :
         (/\ j \in DOMAIN backend'
          /\ backend'[j].status = "PROGRESS"
          /\ (j \notin DOMAIN backend \/ backend'[j] # backend[j]))
            => /\ 1 <= backend'[j].result.current
               /\ backend'[j].result.current <= backend'[j].result.total
               /\ backend'[j].result.total = jobs[j].df.rows
               /\ (j \in DOMAIN backend /\ backend[j].status = "PROGRESS")
                    => /\ backend'[j].result.current >= backend[j].result.current
                       /\ backend'[j].result.total = backend[j].result.total]_vars

\* C7 witness: a job that has published updates before and after a skipped row
C7_Witness ==
    \E j \in JobIds :
        /\ jobs[j].published >= 2
        /\ jobs[j].published < jobs[j].i
        /\ backend[j].status = "PROGRESS"
        /\ backend[j].result.current = jobs[j].i

\* C8: a sheet of zero rows takes the job straight to completed with total 0:
\* no progress update is published, no record is inserted, and no status
\* request for the job is answered anything but PENDING or COMPLETED.
C8_EmptySheetCompletesAtOnce ==
    \A j \in JobIds :
        (jobs[j].pc = "returned" /\ jobs[j].df.readable /\ jobs[j].df.rows = 0)
            => /\ j \in DOMAIN backend
               /\ backend[j] = [status |-> "SUCCESS", result |-> Completed(0)]
               /\ jobs[j].published = 0
               /\ jobs[j].pending = <<>>
               /\ Committed(j) = {}
               /\ (request.route = "upload-status" /\ request.id = j)
                    => /\ request.pc = "done"
                       /\ request.body.state \in {"PENDING", "COMPLETED"}
                       /\ request.since = "returned"
                            => request.body = [state |-> "COMPLETED",
                                               result |-> Completed(0)]

\* C8 witness: an empty sheet's job, polled after it has ended
C8_Witness ==
    \E j \in JobIds :
        /\ jobs[j].pc = "returned" /\ jobs[j].df.readable /\ jobs[j].df.rows = 0
        /\ LateAnswer(j)

\* names that do not end in .xls or .xlsx, whatever the case
OtherNames == {NameCsv, NameBare, NameXlsCsv}

\* C9: a submit of a name that does not end in .xls or .xlsx is answered with
\* an error and changes nothing: no file written, no job enqueued, no id issued.
C9_UnsupportedRejected ==
    [][(/\ request' # request
        /\ request'.route = "upload-xls"
        /\ request'.file \in OtherNames)
          => /\ request'.code = 400
             /\ request'.id = 0
             /\ UNCHANGED <<files, jobs, backend, db>>]_vars

\* C9 witness: a .csv submit rejected while jobs and files exist
C9_Witness ==
    /\ request.route = "upload-xls"
    /\ request.file = NameCsv
    /\ request.code = 400
    /\ Len(jobs) > 0
    /\ \A f \in OtherNames : files[f] = NoFile

\* C10: a status request for an id that submit has not issued is answered
\* {state: PENDING}, not an error.
C10_UnknownIdIsPending ==
    (request.route = "upload-status" /\ request.since = "unissued")
        => /\ request.pc = "done"
           /\ request.code = 200
           /\ request.body = [state |-> "PENDING"]

\* C10 witness: an id never issued polled while other tasks have results
C10_Witness ==
    /\ request.route = "upload-status"
    /\ request.since = "unissued"
    /\ request.pc = "done"
    /\ Len(jobs) = MaxJobs
    /\ request.id > Len(jobs)
    /\ \E j \in JobIds : j \in DOMAIN backend /\ backend[j].status = "SUCCESS"

\* C11: a terminal state is final. A stored result never changes; a status
\* answer COMPLETED or FAILED is the stored result; a request that arrives
\* after the task has returned is answered from that stored result, so it is
\* neither PENDING nor PROGRESS and equals every terminal answer given before.
C11_TerminalIsFinal ==
    /\ [](\A j \in JobIds :
            /\ (StatusAnswer(j) /\ request.body.state \in {"COMPLETED", "FAILED"})
                 => /\ j \in DOMAIN backend
                    /\ backend[j].status \in READY_STATES
                    /\ request.body = Project(backend[j])
            /\ LateAnswer(j)
                 => /\ j \in DOMAIN backend
                    /\ request.body = Project(backend[j])
                    /\ request.body.state \in {"COMPLETED", "FAILED"}
            /\ jobs[j].pc = "returned"
                 => (j \in DOMAIN backend /\ backend[j].status \in READY_STATES))
    /\ [][\A j \in JobIds :
            (j \in DOMAIN backend /\ backend[j].status \in READY_STATES)
                => (backend'[j] = backend[j] /\ jobs'[j].pc = "returned")]_vars

\* C11 witness: a terminal answer for a task while another task is running
C11_Witness ==
    \E j, k \in JobIds :
        /\ LateAnswer(j)
        /\ request.body.state = "COMPLETED"
        /\ jobs[k].pc = "loop"
        /\ k \in DOMAIN backend

\* C12: while a job is enqueued and not yet parsed, no step changes the
\* content stored at its artifact path.
C12_ArtifactStableUntilParsed ==
    [][\A j \in JobIds :
         jobs[j].pc = "queued" => files'[jobs[j].path] = files[jobs[j].path]]_vars

\* C13: a job whose sheet has at least one row is stored as PROGRESS before
\* it is stored as completed.
C13_RunningBeforeSucceeded ==
    [][\A j \in JobIds :
         (/\ jobs[j].pc = "loop"
          /\ jobs'[j].pc = "returned"
          /\ jobs'[j].exc = "none"
          /\ jobs'[j].df.rows >= 1)
            => (j \in DOMAIN backend /\ backend[j].status = "PROGRESS")]_vars

\* C14: a status request with a malformed id is answered with an error, and
\* one with a well-formed id with a view whose state is PENDING, PROGRESS,
\* COMPLETED or FAILED.
C14_MalformedIdRejected ==
    (request.route = "upload-status" /\ request.pc = "done")
        => IF request.id = MalformedId
           THEN request.code # 200
           ELSE /\ request.code = 200
                /\ request.body.state \in {"PENDING", "PROGRESS", "COMPLETED", "FAILED"}

\* C15: under fair scheduling every enqueued job ends with a stored terminal
\* state (jobs are never removed and a returned job stays returned, so "again
\* and again every enqueued job has returned" says it of each job); each iteration of
\* the row loop advances the index by one, so the loop ends after at most
\* total iterations.
C15_EveryJobTerminates ==
    /\ []<>(\A j \in JobIds :
               /\ jobs[j].pc = "returned"
               /\ j \in DOMAIN backend
               /\ backend[j].status \in READY_STATES)
    /\ [](\A j \in JobIds : jobs[j].i <= jobs[j].total)
    /\ [][\A j \in JobIds :
            (jobs[j].pc = "loop" /\ jobs'[j] # jobs[j])
                => \/ jobs'[j].pc = "returned"
                   \/ (/\ jobs'[j].pc = "loop"
                       /\ jobs[j].i < jobs[j].total
                       /\ jobs'[j].i = jobs[j].i + 1)]_vars

\* C15 witness: a job that went through every row of its sheet and returned
C15_Witness ==
    \E j \in JobIds :
        /\ jobs[j].pc = "returned"
        /\ jobs[j].total >= 2
        /\ jobs[j].i = jobs[j].total

\* the committed records of task j, in the order of their commit
JobRecords(j) == SelectSeq(db, LAMBDA r : r.job = j)

\* the task function of j went through its last line (return at line 43)
Succeeded(j) ==
    jobs[j].pc = "returned" /\ jobs[j].exc = "none" /\ jobs[j].total >= 1

\* C16: when a job with a non-empty sheet has succeeded, its committed records
\* are exactly the records of the rows that are not skipped (both username and
\* email resolved by line 25's test), in file order, nothing is left inserted
\* but uncommitted, and no skipped row has a record.
C16_SucceededMeansAllCommitted ==
    \A j \in JobIds :
        Succeeded(j) =>
            LET recs == JobRecords(j)
                df == jobs[j].df
            IN /\ jobs[j].pending = <<>>
               /\ \A k \in 1..Len(recs) :
                     /\ recs[k].row \in 0..(jobs[j].total - 1)
                     /\ ~Skipped(RowAt(df, recs[k].row))
                     /\ recs[k] = UserRecord(j, recs[k].row, RowAt(df, recs[k].row))
                     /\ k > 1 => recs[k - 1].row < recs[k].row
               /\ \A i \in 0..(jobs[j].total - 1) :
                     ~Skipped(RowAt(df, i))
                         => \E k \in 1..Len(recs) : recs[k].row = i

\* C16 witness: a succeeded job whose sheet held both kept and skipped rows
\* and whose last rows were committed by the final commit
C16_Witness ==
    \E j \in JobIds :
        /\ Succeeded(j)
        /\ jobs[j].total % BatchSize # 0
        /\ jobs[j].commits >= 1
        /\ Len(JobRecords(j)) < jobs[j].total
        /\ ~Skipped(RowAt(jobs[j].df, jobs[j].total - 1))

\* an insert or a commit of task j raised
RowFailed(j) ==
    jobs[j].pc = "returned" /\ jobs[j].exc \in {InsertError, CommitError}

\* the row counts at which task j committed before index i: the multiples of
\* BatchSize whose last row was not skipped (line 34 is not reached otherwise)
CommitPoints(j) ==
    {b \in 1..jobs[j].i :
        b % BatchSize = 0 /\ ~Skipped(RowAt(jobs[j].df, b - 1))}

LastCommitPoint(j) ==
    IF CommitPoints(j) = {} THEN 0
    ELSE CHOOSE b \in CommitPoints(j) : \A c \in CommitPoints(j) : c <= b

\* C17: an exception at row k ends the job at k (no later row is handled),
\* the raising step leaves the record store as it was (no rollback of
\* committed batches), and from then on the store holds from this job
\* exactly the records of the batches committed before the exception.
C17_FailureKeepsCommittedBatches ==
    /\ [](\A j \in JobIds :
            RowFailed(j) =>
                LET recs == JobRecords(j)
                    df == jobs[j].df
                    last == LastCommitPoint(j)
                IN /\ jobs[j].pending = <<>>
                   /\ \A k \in 1..Len(recs) :
                         /\ recs[k].row < last
                         /\ recs[k] = UserRecord(j, recs[k].row, RowAt(df, recs[k].row))
                         /\ k > 1 => recs[k - 1].row < recs[k].row
                   /\ \A r \in 0..(last - 1) :
                         ~Skipped(RowAt(df, r))
                             => \E k \in 1..Len(recs) : recs[k].row = r)
    /\ [][\A j \in JobIds :
            /\ (~RowFailed(j) /\ RowFailed(j)')
                 => (db' = db /\ jobs'[j].i = jobs[j].i)
            /\ RowFailed(j)
                 => (JobRecords(j)' = JobRecords(j) /\ jobs'[j] = jobs[j])]_vars

\* C17 witness: a job that failed in its third batch after two commits
C17_Witness ==
    \E j \in JobIds :
        /\ RowFailed(j)
        /\ jobs[j].i > 2 * BatchSize
        /\ jobs[j].i < jobs[j].total - 1
        /\ LastCommitPoint(j) = 2 * BatchSize
        /\ Len(JobRecords(j)) = 2 * BatchSize

\* C18: a status answer is the projection of one stored state: PENDING has
\* no payload, PROGRESS carries current, total and percent of a progress
\* update, COMPLETED carries the result, FAILED the error message; and a
\* status request changes no job, stored state, file or record.
C18_StatusIsPureMapping ==
    \A id \in TaskIds :
        StatusAnswer(id) =>
            CASE request.body.state = "PENDING" ->
                   DOMAIN request.body = {"state"}
              [] request.body.state = "PROGRESS" ->
                   /\ DOMAIN request.body = {"state", "current", "total", "percent"}
                   /\ request.body.current \in 1..request.body.total
              [] request.body.state = "COMPLETED" ->
                   DOMAIN request.body = {"state", "result"}
              [] request.body.state = "FAILED" ->
                   DOMAIN request.body = {"state", "error"}
              [] OTHER -> DOMAIN request.body = {"state"}

\* floor(processed * 100 / total)
FloorPercent(processed, total) == (processed * 100) \div total

\* C19: every published progress update has percent =
\* floor(processed * 100 / total), within 0..100, and 100 exactly when
\* processed = total.
C19_PercentIsFloor ==
    \A j \in JobIds :
        (j \in DOMAIN backend /\ backend[j].status = "PROGRESS")
            => LET m == backend[j].result
               IN /\ m.percent = FloorPercent(m.current, m.total)
                  /\ m.percent \in 0..100
                  /\ (m.percent = 100) <=> (m.current = m.total)

\* C20: a job with at least one row that gets no database connection ends
\* with the error "No DB connection" before any row is handled: nothing
\* inserted, nothing committed, no progress update published.
C20_NoConnectionEndsBeforeRows ==
    \A j \in JobIds :
        jobs[j].exc = NoConnection =>
            /\ jobs[j].pc = "returned"
            /\ jobs[j].total >= 1
            /\ jobs[j].i = 0
            /\ jobs[j].pending = <<>>
            /\ jobs[j].commits = 0
            /\ jobs[j].published = 0
            /\ JobRecords(j) = <<>>
            /\ j \in DOMAIN backend
            /\ backend[j].result = Failed("No DB connection")

\* C20 witness: a job with a sheet of several batches ended without connection
C20_Witness ==
    \E j \in JobIds :
        /\ jobs[j].exc = NoConnection
        /\ jobs[j].pc = "returned"
        /\ jobs[j].total > 2 * BatchSize

====
